---- MODULE Spec2Model ----
(***************************************************************************)
(* Model of plugins/inventory/vmware_vm_inventory.py: the property         *)
(* flattener, the dotted-path getter, the filter-spec builder and the      *)
(* inventory populator (cache replay and live enumeration).                *)
(***************************************************************************)
EXTENDS Naturals, Sequences, FiniteSets, TLC

VARIABLES
    pc,                  \* position of the run / of the unit call
    options,             \* self._options, as loaded from the configuration file
    cache_arg,           \* the `cache` argument handed to parse()
    cache_store,         \* self._cache, seen through the run's cache key
    cache,               \* parse(): local `cache` after line 413
    update_cache,        \* parse(): local `update_cache`
    using_current_cache, \* parse(): local `using_current_cache`
    source_data,         \* parse(): local `source_data`
    vm_filter_spec,      \* the VM.FilterSpec built by _get_vm_filter_spec
    warnings,            \* messages given to display.warning
    error,               \* the exception that ended the run or the call
    list_issued,         \* whether vcenter.VM.list has been called
    tags_info,           \* _populate_from_source: local `tags_info`
    cacheable_results,   \* _populate_from_source: local / returned snapshot
    hostvars,            \* _populate_from_source: local `hostvars` (its keys)
    objects,             \* the VM references of VM.list iterated so far (line 539)
    inventory,           \* self.inventory
    heap,                \* backend object graph handed to the flattener
    fl_result,           \* outcome of a _process_object_types call
    gp_path,             \* `attributes` argument of a _get_object_prop call
    gp_result            \* outcome of a _get_object_prop call

vars == <<pc, options, cache_arg, cache_store, cache, update_cache,
          using_current_cache, source_data, vm_filter_spec, warnings, error,
          list_issued, tags_info, cacheable_results, hostvars, objects, inventory,
          heap, fl_result, gp_path, gp_result>>

(***************************************************************************)
(* Python values.  A dict is a function from its keys; None and "no value" *)
(* of an optional local are the empty sequence.                            *)
(***************************************************************************)
EmptyDict == [k \in {} |-> 0]

None == <<>>

Some(x) == <<x>>

PyNone == [t |-> "none"]

Str(s) == [t |-> "str", s |-> s]

Obj(id) == [t |-> "obj", id |-> id]

Callable == [t |-> "callable"]

Dict(m) == [t |-> "dict", m |-> m]

DictSet(m, k, v) == [x \in (DOMAIN m) \cup {k} |-> IF x = k THEN v ELSE m[x]]

NoRaise == "none"

(***************************************************************************)
(* Bounds of the model.                                                    *)
(***************************************************************************)
MaxPathLen == 2

MaxNames == 2

MaxRunNames == 1

MaxVMs == 2

(***************************************************************************)
(* 4.1 Property flattener: BaseVMwareInventory._process_object_types       *)
(***************************************************************************)
\* json.dumps(vobj) succeeds: strings, None and dicts of such values.
RECURSIVE JsonDumpsOk(_)
JsonDumpsOk(v) ==
    CASE v.t = "str" -> TRUE
      [] v.t = "none" -> TRUE
      [] v.t = "dict" -> \A k \in DOMAIN v.m : JsonDumpsOk(v.m[k])
      [] OTHER -> FALSE

\* dir(vobj): the attribute names the object lists.
Dir(h, v) ==
    IF v.t = "obj" THEN {a \in DOMAIN h[v.id] : h[v.id][a].k # "absent"} ELSE {}

\* getattr(vobj, name): the value read, or the exception the read raises.
GetAttr(h, v, a) ==
    IF v.t # "obj" \/ a \notin DOMAIN h[v.id] \/ h[v.id][a].k = "absent"
    THEN [raised |-> "AttributeError", v |-> PyNone]
    ELSE LET slot == h[v.id][a] IN
         CASE slot.k = "fault" -> [raised |-> slot.exc, v |-> PyNone]
           [] slot.k = "callable" -> [raised |-> NoRaise, v |-> Callable]
           [] OTHER -> [raised |-> NoRaise, v |-> slot.v]

\* Attribute names in Python's sorted() order (upper case, '_', lower case).
AttrOrder ==
    <<"Array", "Name", "PowerOn", "_moId", "config", "guest", "guestId",
      "ipAddress", "name", "powerState", "runtime", "summary", "uuid">>

IsPrivate(a) == a \in {"_moId"}

DenyList == {"Array", "disabledMethod", "declaredAlarmState"}

\* str.lower() on the attribute names of the model.
Lower(a) ==
    CASE a = "Array" -> "array"
      [] a = "Name" -> "name"
      [] a = "PowerOn" -> "poweron"
      [] a = "guestId" -> "guestid"
      [] a = "ipAddress" -> "ipaddress"
      [] a = "powerState" -> "powerstate"
      [] OTHER -> a

\* Lines 326-329: the public, non deny-listed names of dir(vobj), sorted.
SortedProps(h, v) ==
    SelectSeq(AttrOrder,
              LAMBDA a : a \in Dir(h, v) /\ ~IsPrivate(a) /\ a \notin DenyList)

\* Line 342: the recursion guard.
CanRecurseDeeper(level) == level + 1 <= 3

CanRecurse(level) == level + 1 <= 2

\* Lines 333-336: `except Exception: continue` around the attribute read.
ReadSkipped(exc) == exc # NoRaise

\* Lines 343-349: the exception of the recursive call that is swallowed.
RecursionSwallowed(exc) == exc = "NoPermission"

RECURSIVE ProcessObjectTypes(_, _, _)
RECURSIVE ProcessProps(_, _, _, _, _, _)
\* Lines 331-349: the loop over the sorted properties; `levels` collects the
\* levels at which _process_object_types was entered.
ProcessProps(h, vobj, level, props, rdata, levels) ==
    IF props = <<>>
    THEN [raised |-> NoRaise, v |-> Dict(rdata), levels |-> levels]
    ELSE LET prop == Head(props)
             rest == Tail(props)
             rd   == GetAttr(h, vobj, prop)
         IN  IF ReadSkipped(rd.raised)
             THEN ProcessProps(h, vobj, level, rest, rdata, levels)
             ELSE IF rd.raised # NoRaise
             THEN [raised |-> rd.raised, v |-> PyNone, levels |-> levels]
             ELSE IF rd.v.t = "callable"
             THEN ProcessProps(h, vobj, level, rest, rdata, levels)
             ELSE IF CanRecurse(level)
             THEN LET sub == ProcessObjectTypes(h, rd.v, level + 1) IN
                  IF sub.raised = NoRaise
                  THEN ProcessProps(h, vobj, level, rest,
                                    DictSet(rdata, Lower(prop), sub.v),
                                    levels \cup sub.levels)
                  ELSE IF RecursionSwallowed(sub.raised)
                  THEN ProcessProps(h, vobj, level, rest, rdata,
                                    levels \cup sub.levels)
                  ELSE [raised |-> sub.raised, v |-> PyNone,
                        levels |-> levels \cup sub.levels]
             ELSE ProcessProps(h, vobj, level, rest, rdata, levels)

\* Lines 317-351.
ProcessObjectTypes(h, vobj, level) ==
    IF JsonDumpsOk(vobj)
    THEN [raised |-> NoRaise, v |-> vobj, levels |-> {level}]
    ELSE ProcessProps(h, vobj, level, SortedProps(h, vobj), EmptyDict, {level})

(***************************************************************************)
(* 4.2 Dotted-path getter: BaseVMwareInventory._get_object_prop            *)
(***************************************************************************)
\* Line 360: the exceptions of the attribute read that yield None.
GetterCatches(exc) == exc \in {"AttributeError", "IndexError"}

RECURSIVE WalkPath(_, _, _)
\* Lines 357-364: the loop over `attributes`, starting from `result`.
WalkPath(h, result, attributes) ==
    IF attributes = <<>>
    THEN [raised |-> NoRaise, v |-> result]
    ELSE LET rd == GetAttr(h, result, Head(attributes)) IN
         IF GetterCatches(rd.raised)
         THEN [raised |-> NoRaise, v |-> PyNone]
         ELSE IF rd.raised # NoRaise
         THEN [raised |-> rd.raised, v |-> PyNone]
         ELSE LET fl == ProcessObjectTypes(h, rd.v, 0) IN
              IF fl.raised # NoRaise
              THEN [raised |-> fl.raised, v |-> PyNone]
              ELSE WalkPath(h, fl.v, Tail(attributes))

\* Lines 353-364.
GetObjectProp(h, vm, attributes) == WalkPath(h, vm, attributes)

(***************************************************************************)
(* 4.4 Filter-spec builder: InventoryModule._get_vm_filter_spec            *)
(***************************************************************************)
\* The option names of the five filter categories, in the order of the code.
CategoryOrder ==
    <<"datacenters", "clusters", "folders", "esxi_hostsystems", "resource_pools">>

Categories == {CategoryOrder[i] : i \in DOMAIN CategoryOrder}

\* Names a configuration may list: one the backend does not know, one with a
\* single match and one with two matches.
FilterNames == {"gone", "dev", "prod"}

\* The names the configuration of a whole run may list.
RunFilterNames == {"gone", "dev"}

\* The word a category has in the messages of lines 459-507.
CategoryLabel(cat) ==
    CASE cat = "datacenters" -> "datacenter"
      [] cat = "clusters" -> "cluster"
      [] cat = "folders" -> "folder"
      [] cat = "esxi_hostsystems" -> "esxi hostsystem"
      [] cat = "resource_pools" -> "resource pool"

\* rest_content.vcenter.<Category>.list(FilterSpec(names={name})): the
\* references of the summaries the backend returns.
BackendList(cat, name) ==
    CASE name = "dev" -> <<CategoryLabel(cat) \o "-" \o name>>
      [] name = "prod" -> <<CategoryLabel(cat) \o "-" \o name \o "1",
                            CategoryLabel(cat) \o "-" \o name \o "2">>
      [] OTHER -> <<>>

\* VM.FilterSpec(): every dimension unset.
EmptyFilterSpec ==
    [datacenters |-> None, clusters |-> None, folders |-> None,
     hosts |-> None, resource_pools |-> None]

\* The field of vm_filter_spec that each category's block assigns
\* (lines 460, 472, 484, 496, 508).
AssignedField(cat) ==
    CASE cat = "datacenters" -> "datacenters"
      [] cat = "clusters" -> "clusters"
      [] cat = "folders" -> "folders"
      [] cat = "esxi_hostsystems" -> "folders"
      [] cat = "resource_pools" -> "folders"

\* Lines 441-446: what one unresolved name does to the call under a policy.
HandleErrorAlwaysWarns(no_object_failure, message, st) ==
    [st EXCEPT !.warnings = @ \cup {message}]

HandleError(no_object_failure, message, st) ==
    CASE no_object_failure = "warn" -> [st EXCEPT !.warnings = @ \cup {message}]
      [] no_object_failure = "error" ->
            [st EXCEPT !.raised = "AnsibleError", !.message = message]
      [] OTHER -> st

RECURSIVE ResolveNames(_, _, _, _, _)
\* The loop of one category (e.g. lines 453-459): the first match of every
\* name is appended to the temporary list; a miss goes to _handle_error.
ResolveNames(cat, names, no_object_failure, temp, st) ==
    IF names = <<>> \/ st.raised # NoRaise
    THEN [temp |-> temp, st |-> st]
    ELSE LET summaries == BackendList(cat, Head(names)) IN
         IF Len(summaries) > 0
         THEN ResolveNames(cat, Tail(names), no_object_failure,
                           Append(temp, summaries[1]), st)
         ELSE ResolveNames(cat, Tail(names), no_object_failure, temp,
                  HandleError(no_object_failure,
                              "Unable to find " \o CategoryLabel(cat) \o " "
                                  \o Head(names), st))

SeqToSet(s) == {s[i] : i \in DOMAIN s}

\* One category's block (e.g. lines 450-460).
FilterCategory(opts, cat, st) ==
    IF st.raised # NoRaise \/ opts[cat] = <<>>
    THEN st
    ELSE LET r == ResolveNames(cat, opts[cat], opts.no_object_failure, <<>>, st) IN
         IF r.st.raised # NoRaise
         THEN r.st
         ELSE [r.st EXCEPT !.spec[AssignedField(cat)] = Some(SeqToSet(r.temp))]

RECURSIVE FilterCategories(_, _, _)
FilterCategories(opts, cats, st) ==
    IF cats = <<>> THEN st
    ELSE FilterCategories(opts, Tail(cats), FilterCategory(opts, Head(cats), st))

\* Lines 448-510: the filter spec returned, the warnings displayed and the
\* exception raised, if any.
GetVmFilterSpec(opts) ==
    FilterCategories(opts, CategoryOrder,
        [spec |-> EmptyFilterSpec, warnings |-> {}, raised |-> NoRaise,
         message |-> ""])

(***************************************************************************)
(* Configurations.                                                         *)
(***************************************************************************)
\* The filter name lists of a configuration with at most n names in all.
NamesOf(a, cat) ==
    LET s == SelectSeq(a, LAMBDA p : p[1] = cat) IN
    [i \in 1..Len(s) |-> s[i][2]]

FilterLists(names, n) ==
    LET assignments == UNION {[1..k -> Categories \X names] : k \in 0..n}
    IN  {[cat \in Categories |-> NamesOf(a, cat)] : a \in assignments}

\* The `properties` option: dotted paths, and str.split(".") on each.
Properties == <<"name", "guest.ipAddress">>

SplitDots(vm_prop) ==
    CASE vm_prop = "name" -> <<"name">>
      [] vm_prop = "guest.ipAddress" -> <<"guest", "ipAddress">>
      [] vm_prop = "config.guestId" -> <<"config", "guestId">>
      [] OTHER -> <<vm_prop>>

Policies == {"silent", "warn", "error"}

MakeOptions(lists, policy, tags, cacheOpt) ==
    [datacenters |-> lists["datacenters"], clusters |-> lists["clusters"],
     folders |-> lists["folders"],
     esxi_hostsystems |-> lists["esxi_hostsystems"],
     resource_pools |-> lists["resource_pools"],
     no_object_failure |-> policy, with_tags |-> tags, cache |-> cacheOpt,
     properties |-> Properties]

OptionSet(names, n) ==
    {MakeOptions(l, p, t, c) :
        l \in FilterLists(names, n), p \in Policies, t \in BOOLEAN, c \in BOOLEAN}

(***************************************************************************)
(* The backend: virtual machines, tags and tag attachments.                *)
(***************************************************************************)
\* Managed object ids of the virtual machines VM.list may return.
VMIds == {"vm-1", "vm-2", "vm-3", "vm-4"}

\* vm-1 and vm-2 share a display name; vm-3 has no guest OS id; vm-4 is an
\* orphan without configuration.
VMFacts(id) ==
    CASE id = "vm-1" ->
            [name |-> "web", config |-> TRUE, uuid |-> "u1",
             ip |-> Str("10.0.0.5"), power |-> "poweredOn",
             guestId |-> Str("otherLinux64Guest"), tags |-> <<"t1", "t2", "t3">>]
      [] id = "vm-2" ->
            [name |-> "web", config |-> TRUE, uuid |-> "u2",
             ip |-> PyNone, power |-> "poweredOff",
             guestId |-> Str("windows9Server64Guest"), tags |-> <<"t1">>]
      [] id = "vm-3" ->
            [name |-> "db", config |-> TRUE, uuid |-> "u3",
             ip |-> PyNone, power |-> "poweredOn",
             guestId |-> PyNone, tags |-> <<>>]
      [] OTHER ->
            [name |-> "old", config |-> FALSE, uuid |-> "u4",
             ip |-> PyNone, power |-> "poweredOff",
             guestId |-> PyNone, tags |-> <<>>]

Val(v) == [k |-> "val", v |-> v]

\* vim.VirtualMachine(o.vm, stub): the object graph behind one reference.
VMHeap(id) ==
    LET f == VMFacts(id) IN
    [x \in {"vm", "config", "guest", "summary", "runtime"} |->
        CASE x = "vm" ->
                [name |-> Val(Str(f.name)),
                 config |-> Val(IF f.config THEN Obj("config") ELSE PyNone),
                 guest |-> Val(Obj("guest")),
                 summary |-> Val(Obj("summary")),
                 PowerOn |-> [k |-> "callable"],
                 _moId |-> Val(Str(id))]
          [] x = "config" ->
                [uuid |-> Val(Str(f.uuid)), guestId |-> Val(f.guestId)]
          [] x = "guest" -> [ipAddress |-> Val(f.ip)]
          [] x = "summary" -> [runtime |-> Val(Obj("runtime"))]
          [] OTHER -> [powerState |-> Val(Str(f.power))]]

\* A plain attribute read of the populator (vm_obj.name, vm_obj.config, ...).
Read(h, v, a) == GetAttr(h, v, a).v

\* bool(value) for the values of the model.
Truthy(v) == v.t = "obj" \/ (v.t = "str" /\ v.s # "")

\* tagging.Tag.list() and tagging.Tag.get(tag).name
TagList == <<"t1", "t2", "t3">>

TagName(tag) ==
    CASE tag = "t1" -> "prod"
      [] tag = "t2" -> "prod"
      [] OTHER -> "poweredOn"

\* tagging.TagAssociation.list_attached_tags(DynamicID(id=vm_mo_id))
ListAttachedTags(vm_mo_id) == VMFacts(vm_mo_id).tags

(***************************************************************************)
(* self.inventory: the add_group / add_host / add_child / set_variable     *)
(* primitives of the orchestration host.                                   *)
(***************************************************************************)
EmptyInventory ==
    [groups |-> {"all"}, hosts |-> {},
     children |-> [g \in {"all"} |-> {}], vars |-> EmptyDict]

AddGroup(inv, group) ==
    IF group \in inv.groups THEN inv
    ELSE [inv EXCEPT !.groups = @ \cup {group},
                     !.children = DictSet(@, group, {})]

AddHost(inv, host) ==
    IF host \in inv.hosts THEN inv
    ELSE [inv EXCEPT !.hosts = @ \cup {host},
                     !.vars = DictSet(@, host, EmptyDict)]

CanAddChild(inv, group, child) ==
    group \in inv.groups /\ child \in inv.groups \cup inv.hosts

AddChild(inv, group, child) ==
    [inv EXCEPT !.children[group] = @ \cup {child}]

SetVariable(inv, host, varname, value) ==
    [inv EXCEPT !.vars[host] = DictSet(@, varname, value)]

(***************************************************************************)
(* 4.5 Inventory populator: cache replay (_populate_from_cache)            *)
(***************************************************************************)
\* dict.pop(key, None) on the snapshot.
DictPop(d, key) == [k \in (DOMAIN d) \ {key} |-> d[k]]

\* Line 430: source_data.pop('_meta', {}).get('hostvars', {})
MetaHostvars(sd) ==
    IF "_meta" \in DOMAIN sd /\ "hostvars" \in DOMAIN sd["_meta"]
    THEN sd["_meta"].hostvars ELSE EmptyDict

\* source_data[group].get('hosts', [])
GroupHostsFirstOnly(entry) ==
    IF "hosts" \in DOMAIN entry /\ entry.hosts # <<>>
    THEN <<entry.hosts[1]>> ELSE <<>>

GroupHosts(entry) == IF "hosts" \in DOMAIN entry THEN entry.hosts ELSE <<>>

RECURSIVE SetVariables(_, _, _, _)
SetVariables(inv, host, variables, names) ==
    IF names = {} THEN inv
    ELSE LET k == CHOOSE k \in names : TRUE IN
         SetVariables(SetVariable(inv, host, k, variables[k]), host,
                      variables, names \ {k})

\* BaseInventoryPlugin._populate_host_vars([host], variables, group), as
\* called at line 438: add the host, put it in the group, set its variables.
PopulateHostVars(inv, host, variables, group) ==
    SetVariables(AddChild(AddHost(inv, host), group, host), host,
                 variables, DOMAIN variables)

RECURSIVE ReplayHosts(_, _, _, _)
\* Lines 437-438.
ReplayHosts(inv, hosts, hvars, group) ==
    IF hosts = <<>> THEN inv
    ELSE LET host == Head(hosts)
             variables == IF host \in DOMAIN hvars THEN hvars[host]
                          ELSE EmptyDict
         IN  ReplayHosts(PopulateHostVars(inv, host, variables, group),
                         Tail(hosts), hvars, group)

\* Line 432: the group that replay skips.
Skipped(group) == group = "all"

RECURSIVE ReplayGroups(_, _, _, _)
\* Lines 431-439: the loop over the groups left in the snapshot.
ReplayGroups(inv, sd, hvars, groups) ==
    IF groups = {} THEN inv
    ELSE LET group == CHOOSE g \in groups : TRUE IN
         IF Skipped(group)
         THEN ReplayGroups(inv, sd, hvars, groups \ {group})
         ELSE ReplayGroups(
                 AddChild(ReplayHosts(AddGroup(inv, group),
                                      GroupHosts(sd[group]), hvars, group),
                          "all", group),
                 sd, hvars, groups \ {group})

\* Lines 428-439: the inventory after the replay, and the snapshot as the
\* call leaves it.
SnapshotAfterReplay(sd) == DictPop(sd, "_meta")

PopulateFromCache(inv, sd) ==
    LET left == SnapshotAfterReplay(sd) IN
    [inv |-> ReplayGroups(inv, left, MetaHostvars(sd), DOMAIN left),
     source_data |-> left]

(***************************************************************************)
(* 4.5 Inventory populator: live enumeration (_populate_from_source)       *)
(***************************************************************************)
\* Line 546: the host key.
HostKey(name, uuid) == name \o "_" \o uuid

RECURSIVE TagGroups(_, _)
\* Lines 530-537: the id -> name lookup and one group per tag name.
TagGroups(tags, st) ==
    IF tags = <<>> THEN st
    ELSE LET name == TagName(Head(tags))
             st1 == [st EXCEPT !.tags_info = DictSet(@, Head(tags), name)]
         IN  IF name \notin DOMAIN st1.cr
             THEN TagGroups(Tail(tags),
                     [st1 EXCEPT !.cr = DictSet(@, name, [hosts |-> <<>>]),
                                 !.inv = AddGroup(@, name)])
             ELSE TagGroups(Tail(tags), st1)

\* self.inventory.add_child(group, host), which raises on an unknown group.
AddChildSt(st, group, host) ==
    IF st.raised # NoRaise THEN st
    ELSE IF CanAddChild(st.inv, group, host)
    THEN [st EXCEPT !.inv = AddChild(@, group, host)]
    ELSE [st EXCEPT !.raised = "AnsibleError"]

\* cacheable_results[group]['hosts'].append(host), a KeyError when the
\* snapshot has no such group.
AppendHostSt(st, group, host) ==
    IF st.raised # NoRaise THEN st
    ELSE IF group.t = "str" /\ group.s \in DOMAIN st.cr
            /\ "hosts" \in DOMAIN st.cr[group.s]
    THEN [st EXCEPT !.cr[group.s].hosts = Append(@, host)]
    ELSE [st EXCEPT !.raised = "KeyError"]

RECURSIVE HostProperties(_, _, _, _, _)
\* Lines 591-605 for the configured dotted paths.
HostProperties(st, h, vm_obj, current_host, vm_properties) ==
    IF vm_properties = <<>> \/ st.raised # NoRaise THEN st
    ELSE LET vm_prop == Head(vm_properties)
             vm_value == GetObjectProp(h, vm_obj, SplitDots(vm_prop))
         IN  IF vm_value.raised # NoRaise
             THEN [st EXCEPT !.raised = vm_value.raised]
             ELSE HostProperties(
                     [st EXCEPT !.inv = SetVariable(@, current_host, vm_prop,
                                                    vm_value.v)],
                     h, vm_obj, current_host, Tail(vm_properties))

RECURSIVE AttachTags(_, _, _)
\* Lines 565-567.
AttachTags(st, attached_tags, current_host) ==
    IF attached_tags = <<>> \/ st.raised # NoRaise THEN st
    ELSE LET group == st.tags_info[Head(attached_tags)] IN
         AttachTags(AppendHostSt(AddChildSt(st, group, current_host),
                                 Str(group), current_host),
                    Tail(attached_tags), current_host)

\* Lines 569-575: the power-state group.
PowerGroup(st, vm_power, current_host) ==
    IF st.raised # NoRaise THEN st
    ELSE LET st1 == IF vm_power \notin DOMAIN st.cr
                    THEN [st EXCEPT !.cr = DictSet(@, vm_power, [hosts |-> <<>>]),
                                    !.inv = AddGroup(@, vm_power)]
                    ELSE st
         IN  AddChildSt(AppendHostSt(st1, Str(vm_power), current_host),
                        vm_power, current_host)

\* Lines 577-583: the guest-OS group.
GuestGroup(st, vm_guest_id, current_host) ==
    IF st.raised # NoRaise THEN st
    ELSE LET st1 == IF Truthy(vm_guest_id) /\ vm_guest_id.s \notin DOMAIN st.cr
                    THEN [st EXCEPT !.cr = DictSet(@, vm_guest_id.s,
                                                   [hosts |-> <<>>]),
                                    !.inv = AddGroup(@, vm_guest_id.s)]
                    ELSE st
             st2 == AppendHostSt(st1, vm_guest_id, current_host)
         IN  IF st2.raised # NoRaise THEN st2
             ELSE AddChildSt(st2, vm_guest_id.s, current_host)

\* Line 548: whether the key is new to this run.
KeyIsNewAlways(key, st) == TRUE

KeyIsNew(key, st) == key \notin st.hv

\* Lines 540-583: one iteration of the loop over the VM references.
ProcessObject(id, opts, st) ==
    LET h == VMHeap(id)
        vm_obj == Obj("vm")
        config == Read(h, vm_obj, "config")
    IN  IF ~Truthy(config) THEN st
        ELSE
        LET current_host == HostKey(Read(h, vm_obj, "name").s,
                                    Read(h, config, "uuid").s)
        IN  IF ~KeyIsNew(current_host, st) THEN st
            ELSE
            LET host_ip == Read(h, Read(h, vm_obj, "guest"), "ipAddress")
                st1 == [st EXCEPT !.hv = @ \cup {current_host},
                                  !.inv = AddHost(@, current_host)]
                st2 == IF Truthy(host_ip)
                       THEN [st1 EXCEPT !.inv = SetVariable(@, current_host,
                                                   "ansible_host", host_ip)]
                       ELSE st1
                st3 == HostProperties(st2, h, vm_obj, current_host,
                                      opts.properties)
                st4 == IF opts.with_tags
                       THEN AttachTags(st3, ListAttachedTags(Read(h, vm_obj, "_moId").s),
                                       current_host)
                       ELSE st3
                vm_power == Read(h, Read(h, Read(h, vm_obj, "summary"),
                                         "runtime"), "powerState").s
                st5 == PowerGroup(st4, vm_power, current_host)
            IN  GuestGroup(st5, Read(h, config, "guestId"), current_host)

\* The hosts whose variables line 585-587 copy into '_meta'/'hostvars'.
HostsCopiedWithAddress(hv, inv) ==
    {host \in hv : "ansible_host" \in DOMAIN inv.vars[host]}

HostsCopied(hv, inv) == hv

\* Lines 585-589: the snapshot returned.
WithHostvars(cr, hv, inv) ==
    [cr EXCEPT !["_meta"] =
        [hostvars |-> [host \in HostsCopied(hv, inv) |-> inv.vars[host]]]]

(***************************************************************************)
(* The run: InventoryModule.parse and the steps of _populate_from_source.  *)
(***************************************************************************)
\* The snapshot an earlier process may have left under the run's cache key:
\* it has the root group, an empty group and a member without variables.
SeedSnapshot ==
    [_meta |-> [hostvars |->
                   [web_u1 |-> [ansible_host |-> Str("10.0.0.5"),
                                name |-> Str("web")]]],
     all |-> [hosts |-> <<"web_u1">>],
     poweredOn |-> [hosts |-> <<"web_u1", "db_u3">>],
     prod |-> [hosts |-> <<>>]]

CacheSeeds == {None, Some(SeedSnapshot)}

\* The locals of a run before parse() has assigned them.
RunLocalsUnset ==
    /\ cache = FALSE
    /\ update_cache = FALSE
    /\ using_current_cache = FALSE
    /\ source_data = None
    /\ vm_filter_spec = EmptyFilterSpec
    /\ warnings = {}
    /\ error = None
    /\ list_issued = FALSE
    /\ tags_info = EmptyDict
    /\ cacheable_results = EmptyDict
    /\ hostvars = {}
    /\ objects = <<>>
    /\ inventory = EmptyInventory

NoUnitCall ==
    /\ heap = EmptyDict
    /\ fl_result = None
    /\ gp_path = <<>>
    /\ gp_result = None

Init ==
    /\ pc = "start"
    /\ options \in OptionSet(RunFilterNames, MaxRunNames)
    /\ cache_arg \in BOOLEAN
    /\ cache_store \in CacheSeeds
    /\ RunLocalsUnset
    /\ NoUnitCall

\* Lines 415-420: update_cache, from the local `cache` and the store.
UpdateCacheWheneverLive(cacheLocal, store) == ~(cacheLocal /\ store # None)

UpdateCacheFlag(cacheLocal, store) == cacheLocal /\ store = None

\* Lines 411-423: the cache decision of parse().
Parse ==
    /\ pc = "start"
    /\ LET c == IF cache_arg THEN options.cache ELSE cache_arg
           u == UpdateCacheFlag(c, cache_store)
       IN  /\ cache' = c
           /\ update_cache' = u
           /\ source_data' = IF c THEN cache_store ELSE None
           /\ using_current_cache' = (c /\ ~u)
           /\ pc' = IF c /\ ~u THEN "replay" ELSE "source"
    /\ UNCHANGED <<options, cache_arg, cache_store, vm_filter_spec,
                   warnings, error, list_issued, tags_info, cacheable_results,
                   hostvars, objects, inventory, heap,
                   fl_result, gp_path, gp_result>>

\* Lines 517-519: the replay branch; the snapshot is the call's result.
ReplayCache ==
    /\ pc = "replay"
    /\ LET r == PopulateFromCache(inventory, source_data[1]) IN
          /\ inventory' = r.inv
          /\ source_data' = Some(r.source_data)
          /\ cacheable_results' = r.source_data
    /\ pc' = "returned"
    /\ UNCHANGED <<options, cache_arg, cache_store, cache, update_cache,
                   using_current_cache, vm_filter_spec, warnings, error,
                   list_issued, tags_info, hostvars, objects,
                   heap, fl_result, gp_path, gp_result>>

\* Lines 521-524: the empty result and the call of _get_vm_filter_spec.
BuildFilterSpec ==
    /\ pc = "source"
    /\ LET r == GetVmFilterSpec(options) IN
          /\ warnings' = warnings \cup r.warnings
          /\ IF r.raised # NoRaise
             THEN /\ error' = Some([type |-> r.raised, message |-> r.message])
                  /\ pc' = "failed"
                  /\ UNCHANGED vm_filter_spec
             ELSE /\ vm_filter_spec' = r.spec
                  /\ pc' = "list"
                  /\ UNCHANGED error
    /\ cacheable_results' = [_meta |-> [hostvars |-> EmptyDict]]
    /\ hostvars' = {}
    /\ UNCHANGED <<options, cache_arg, cache_store, cache, update_cache,
                   using_current_cache, source_data, list_issued, tags_info,
                   objects, inventory, heap, fl_result,
                   gp_path, gp_result>>

\* Lines 525-537: VM.list, and with tags the tag groups.
ListVMs ==
    /\ pc = "list"
    /\ list_issued' = TRUE
    /\ LET st0 == [inv |-> inventory, cr |-> cacheable_results,
                   tags_info |-> EmptyDict]
           st == IF options.with_tags THEN TagGroups(TagList, st0) ELSE st0
       IN  /\ inventory' = st.inv
           /\ cacheable_results' = st.cr
           /\ tags_info' = st.tags_info
    /\ pc' = "vms"
    /\ UNCHANGED <<options, cache_arg, cache_store, cache, update_cache,
                   using_current_cache, source_data, vm_filter_spec, warnings,
                   error, hostvars, objects, heap, fl_result,
                   gp_path, gp_result>>

\* Lines 539-583: the next VM reference of the list.
ProcessNextObject ==
    /\ pc = "vms"
    /\ Len(objects) < MaxVMs
    /\ \E id \in VMIds :
          LET st == ProcessObject(id, options,
                     [inv |-> inventory, cr |-> cacheable_results,
                      hv |-> hostvars, tags_info |-> tags_info,
                      raised |-> NoRaise])
          IN  /\ objects' = Append(objects, id)
              /\ inventory' = st.inv
              /\ cacheable_results' = st.cr
              /\ hostvars' = st.hv
              /\ IF st.raised # NoRaise
                 THEN /\ error' = Some([type |-> st.raised, message |-> id])
                      /\ pc' = "failed"
                 ELSE UNCHANGED <<error, pc>>
    /\ UNCHANGED <<options, cache_arg, cache_store, cache, update_cache,
                   using_current_cache, source_data, vm_filter_spec, warnings,
                   list_issued, tags_info, heap, fl_result,
                   gp_path, gp_result>>

\* Lines 585-589: the list is exhausted; hostvars are copied and the
\* snapshot is returned.
ReturnResults ==
    /\ pc = "vms"
    /\ cacheable_results' = WithHostvars(cacheable_results, hostvars, inventory)
    /\ pc' = "returned"
    /\ UNCHANGED <<options, cache_arg, cache_store, cache, update_cache,
                   using_current_cache, source_data, vm_filter_spec, warnings,
                   error, list_issued, tags_info, hostvars, objects, inventory,
                   heap, fl_result, gp_path, gp_result>>

\* Lines 425-426: the cache write that ends parse().
UpdateCache ==
    /\ pc = "returned"
    /\ cache_store' = IF update_cache THEN Some(cacheable_results)
                      ELSE cache_store
    /\ pc' = "done"
    /\ UNCHANGED <<options, cache_arg, cache, update_cache,
                   using_current_cache, source_data, vm_filter_spec, warnings,
                   error, list_issued, tags_info, cacheable_results, hostvars,
                   objects, inventory, heap, fl_result,
                   gp_path, gp_result>>

\* The next run of the same configuration: a new plugin object and a new,
\* empty inventory; the cache store is what the last run left.
NewRun ==
    /\ pc = "done"
    /\ pc' = "start"
    /\ inventory' = EmptyInventory
    /\ cache' = FALSE
    /\ update_cache' = FALSE
    /\ using_current_cache' = FALSE
    /\ source_data' = None
    /\ vm_filter_spec' = EmptyFilterSpec
    /\ warnings' = {}
    /\ list_issued' = FALSE
    /\ tags_info' = EmptyDict
    /\ cacheable_results' = EmptyDict
    /\ hostvars' = {}
    /\ objects' = <<>>
    /\ UNCHANGED <<options, cache_arg, cache_store, error, heap, fl_result,
                   gp_path, gp_result>>

Next ==
    \/ Parse
    \/ ReplayCache
    \/ BuildFilterSpec
    \/ ListVMs
    \/ ProcessNextObject
    \/ ReturnResults
    \/ UpdateCache
    \/ NewRun

Spec == Init /\ [][Next]_vars

(***************************************************************************)
(* The filter-spec builder on its own, over richer configurations.         *)
(***************************************************************************)
InitFilter ==
    /\ pc = "source"
    /\ options \in {opt \in OptionSet(FilterNames, MaxNames) : ~opt.with_tags /\ ~opt.cache}
    /\ cache_arg = FALSE
    /\ cache_store = None
    /\ RunLocalsUnset
    /\ NoUnitCall

NextFilter == BuildFilterSpec

SpecFilter == InitFilter /\ [][NextFilter]_vars

(***************************************************************************)
(* The flattener and the getter on their own, over object graphs.          *)
(***************************************************************************)
ObjIds == {"o1", "o2"}

GraphAttrs == {"Name", "config"}

ReadFaults == {"NoPermission", "IndexError"}

Slots ==
    {[k |-> "absent"], [k |-> "callable"], Val(Str("x"))}
        \cup {[k |-> "fault", exc |-> e] : e \in ReadFaults}
        \cup {Val(Obj(id)) : id \in ObjIds}

\* Every object also lists a private attribute and a deny-listed one, both
\* leading back to the object itself.
GraphHeap(g) ==
    [id \in ObjIds |->
        [a \in GraphAttrs \cup {"_moId", "Array"} |->
            IF a \in GraphAttrs THEN g[id][a] ELSE Val(Obj(id))]]

Heaps == {GraphHeap(g) : g \in [ObjIds -> [GraphAttrs -> Slots]]}

Roots == {Obj("o1"), Str("x"), PyNone}

Paths == UNION {[1..k -> GraphAttrs] : k \in 0..MaxPathLen}

InitFlat ==
    /\ pc = "call"
    /\ options = MakeOptions([c \in Categories |-> <<>>], "silent", FALSE, FALSE)
    /\ cache_arg = FALSE
    /\ cache_store = None
    /\ RunLocalsUnset
    /\ heap \in Heaps
    /\ fl_result = None
    /\ gp_path = <<>>
    /\ gp_result = None

\* A call _process_object_types(vobj) (level 0).
CallProcessObjectTypes ==
    /\ pc = "call"
    /\ \E vobj \in Roots :
          fl_result' = Some([vobj |-> vobj,
                             out |-> ProcessObjectTypes(heap, vobj, 0)])
    /\ pc' = "flattened"
    /\ UNCHANGED <<options, cache_arg, cache_store, cache, update_cache,
                   using_current_cache, source_data, vm_filter_spec, warnings,
                   error, list_issued, tags_info, cacheable_results, hostvars,
                   objects, inventory, heap, gp_path,
                   gp_result>>

\* A call _get_object_prop(vm, attributes) on the object o1.
CallGetObjectProp ==
    /\ pc = "call"
    /\ \E attributes \in Paths :
          /\ gp_path' = attributes
          /\ gp_result' = Some(GetObjectProp(heap, Obj("o1"), attributes))
    /\ pc' = "got"
    /\ UNCHANGED <<options, cache_arg, cache_store, cache, update_cache,
                   using_current_cache, source_data, vm_filter_spec, warnings,
                   error, list_issued, tags_info, cacheable_results, hostvars,
                   objects, inventory, heap, fl_result>>

NextFlat == CallProcessObjectTypes \/ CallGetObjectProp

SpecFlat == InitFlat /\ [][NextFlat]_vars

(***************************************************************************)
(* Properties.                                                             *)
(***************************************************************************)
\* The display name, uuid and guest OS id the backend holds for a reference.
HasConfig(id) == VMFacts(id).config

\* The run enumerates live and has returned from _populate_from_source.
LiveRunReturned == pc \in {"returned", "done"} /\ ~using_current_cache

\* The member list of a group of the snapshot.
Members(snapshot, g) ==
    IF g \in DOMAIN snapshot /\ "hosts" \in DOMAIN snapshot[g]
    THEN SeqToSet(snapshot[g].hosts) ELSE {}

\* C1: when a live enumeration run returns, every host key that appears in
\* the 'hosts' list of any group of the returned snapshot has an entry under
\* the snapshot's '_meta'/'hostvars' mapping.
C1_MembersHaveHostvars ==
    LiveRunReturned =>
        \A g \in DOMAIN cacheable_results :
            Members(cacheable_results, g)
                \subseteq DOMAIN cacheable_results["_meta"].hostvars

\* A live run with tags returned two hosts, one without an address, and the
\* tag group 'prod' has both as members.
C1_Witness ==
    /\ LiveRunReturned
    /\ options.with_tags
    /\ Members(cacheable_results, "prod") = {"web_u1", "web_u2"}
    /\ "ansible_host" \notin DOMAIN inventory.vars["web_u2"]

\* C2: in one live pass the host key is '<display name>_<uuid>': every VM
\* with a configuration that was iterated is a host under that key, so two
\* VMs with one display name and different uuids are two hosts; and a
\* reference whose key was already seen changes nothing (no host, no
\* variable, no member list).
C2_KeyOfIterated ==
    \A i \in DOMAIN objects :
        HasConfig(objects[i]) =>
            /\ (VMFacts(objects[i]).name \o "_" \o VMFacts(objects[i]).uuid)
                   \in inventory.hosts
            /\ \A j \in DOMAIN objects :
                  (/\ HasConfig(objects[j])
                   /\ VMFacts(objects[j]).name = VMFacts(objects[i]).name
                   /\ VMFacts(objects[j]).uuid # VMFacts(objects[i]).uuid)
                  => Cardinality(inventory.hosts) >= 2

C2_SecondEncounterNoOp ==
    (/\ pc = "vms"
     /\ Len(objects') = Len(objects) + 1
     /\ HasConfig(objects'[Len(objects')])
     /\ (VMFacts(objects'[Len(objects')]).name \o "_"
            \o VMFacts(objects'[Len(objects')]).uuid) \in hostvars)
    => /\ inventory' = inventory
       /\ cacheable_results' = cacheable_results
       /\ hostvars' = hostvars
       /\ pc' = pc

C2_HostKeyOncePerKey == []C2_KeyOfIterated /\ [][C2_SecondEncounterNoOp]_vars

\* The same reference was iterated twice, with tags on, and is one host.
C2_Witness ==
    /\ pc = "vms"
    /\ options.with_tags
    /\ objects = <<"vm-1", "vm-1">>
    /\ inventory.hosts = {"web_u1"}

\* C3: cache replay is idempotent and leaves the snapshot unchanged:
\* replaying the snapshot again into an empty inventory gives the inventory
\* the first replay gave, and the snapshot returned as the run's result
\* equals the snapshot read from the cache, '_meta' included.
C3_ReplayIdempotentUnchanged ==
    (pc = "returned" /\ using_current_cache) =>
        /\ cacheable_results = cache_store[1]
        /\ PopulateFromCache(EmptyInventory, source_data[1]).inv = inventory

\* The references a category's names resolve to: the first match of each
\* name that has a match.
FirstMatches(cat, names) ==
    {BackendList(cat, names[i])[1] :
        i \in {k \in DOMAIN names : BackendList(cat, names[k]) # <<>>}}

\* The references a dimension of the filter spec holds (none when unset).
DimRefs(dim) == IF dim = None THEN {} ELSE dim[1]

\* C4: after filter-spec construction the folder dimension holds exactly
\* the references resolved from the configured folder names, whatever
\* esxi_hostsystems and resource_pools names are configured.
C4_FolderDimensionOwn ==
    pc = "list" =>
        DimRefs(vm_filter_spec.folders) = FirstMatches("folders", options.folders)

\* Some configured filter name has zero backend matches.
HasUnresolved(opts) ==
    \E cat \in Categories :
        \E i \in DOMAIN opts[cat] : BackendList(cat, opts[cat][i]) = <<>>

\* What an aborted run leaves: it stopped in _get_vm_filter_spec with a
\* fatal error, VM.list was not called, the inventory has no host and the
\* cache was not written.
AbortedBeforeEnumeration ==
    /\ pc \in {"start", "source", "failed"}
    /\ pc = "failed" => (error # None /\ error[1].type = "AnsibleError")
    /\ ~list_issued
    /\ inventory.hosts = {}
    /\ update_cache => cache_store = None

\* C5 as stated: for every configuration with an unresolved filter name and
\* no_object_failure 'error', the run aborts before any VM is enumerated.
C5_AbortsInEveryRun ==
    (/\ options.no_object_failure = "error"
     /\ HasUnresolved(options)
     /\ pc # "replay")
        => AbortedBeforeEnumeration

\* C5 amended: for every configuration with an unresolved filter name and
\* no_object_failure 'error', a run that does not replay a cached snapshot
\* aborts with a fatal error before any VM is enumerated: VM.list is never
\* issued, no host is added and nothing is written to the cache.
C5_LiveRunAborts ==
    (/\ options.no_object_failure = "error"
     /\ HasUnresolved(options)
     /\ ~using_current_cache)
        => AbortedBeforeEnumeration

\* A live run with policy 'error' and an unresolved name has aborted.
C5_Witness ==
    /\ pc = "failed"
    /\ options.no_object_failure = "error"
    /\ HasUnresolved(options)
    /\ ~using_current_cache
    /\ cache
    /\ update_cache

\* The dimension of the filter spec that belongs to a category.
OwnDimension(cat) ==
    CASE cat = "esxi_hostsystems" -> "hosts"
      [] OTHER -> cat

\* C6: under 'silent' an unresolved name never aborts and produces no
\* diagnostic, in all five categories: construction completes and each
\* category's reference set is exactly the first-match references of its
\* names that resolved.
C6_SilentPolicy ==
    (options.no_object_failure = "silent" /\ pc # "source") =>
        /\ pc = "list"
        /\ warnings = {}
        /\ error = None
        /\ \A cat \in Categories :
              DimRefs(vm_filter_spec[OwnDimension(cat)])
                  = FirstMatches(cat, options[cat])

\* Caching is enabled for the run.
CachingEnabled == cache_arg /\ options.cache

\* C7 as stated: the run replays exactly when caching is enabled and a
\* snapshot exists; in every other case it enumerates live and is marked to
\* write its result on completion.
C7_OtherwiseMarkedToWrite ==
    pc \in {"replay", "source"} =>
        /\ (pc = "replay") = (CachingEnabled /\ cache_store # None)
        /\ using_current_cache = (pc = "replay")
        /\ pc = "source" => update_cache

\* C7 amended: the run replays exactly when caching is enabled and a
\* snapshot exists under the cache key; in every other case it enumerates
\* live, and it is marked to write its result exactly when caching is
\* enabled and no snapshot exists (with caching disabled nothing is
\* marked and the store is left as it is).
C7_CacheDecision ==
    /\ pc \in {"replay", "source"} =>
          /\ (pc = "replay") = (CachingEnabled /\ cache_store # None)
          /\ using_current_cache = (pc = "replay")
          /\ update_cache = (CachingEnabled /\ cache_store = None)
    /\ (pc = "done" /\ update_cache) => cache_store = Some(cacheable_results)

\* Caching is disabled while a snapshot exists: the run goes live, unmarked.
C7_Witness ==
    /\ pc = "source"
    /\ ~CachingEnabled
    /\ cache_store # None
    /\ ~update_cache

\* C8: _get_object_prop never raises, whatever failure an attribute read
\* produces.
C8_GetterNeverRaises ==
    pc = "got" => gp_result[1].raised = NoRaise

\* Third-level mappings of a flattened value are empty.
ThirdLevelEmpty(v) ==
    \A k1 \in DOMAIN v.m :
        v.m[k1].t = "dict" =>
            \A k2 \in DOMAIN v.m[k1].m :
                v.m[k1].m[k2].t = "dict" => v.m[k1].m[k2].m = EmptyDict

\* C9: _process_object_types never raises, is entered at no level above 2,
\* omits attributes whose read fails or whose value is callable, and
\* returns a serializable value: the input itself when it is serializable,
\* else a mapping at most three deep whose third-level mappings are empty.
C9_FlattenerBounded ==
    pc = "flattened" =>
        LET vobj == fl_result[1].vobj
            out  == fl_result[1].out
        IN  /\ out.raised = NoRaise
            /\ out.levels \subseteq 0..2
            /\ JsonDumpsOk(out.v)
            /\ JsonDumpsOk(vobj) => out.v = vobj
            /\ ~JsonDumpsOk(vobj) =>
                  /\ out.v.t = "dict"
                  /\ ThirdLevelEmpty(out.v)
                  /\ \A a \in GraphAttrs :
                        heap[vobj.id][a].k \in {"absent", "fault", "callable"}
                            => Lower(a) \notin DOMAIN out.v.m
                  /\ "array" \notin DOMAIN out.v.m
                  /\ "_moId" \notin DOMAIN out.v.m

\* A self-referential object was flattened down to the empty third level.
C9_Witness ==
    /\ pc = "flattened"
    /\ fl_result[1].vobj = Obj("o1")
    /\ heap["o1"]["config"] = Val(Obj("o1"))
    /\ heap["o1"]["Name"].k = "fault"
    /\ fl_result[1].out.v = Dict([config |-> Dict([config |-> Dict(EmptyDict)])])

\* C10: a VM whose guest OS id is absent is processed without error: it
\* becomes a host with its power-state membership, and the run goes on.
C10_AbsentGuestIdProcessed ==
    \A i \in DOMAIN objects :
        (HasConfig(objects[i]) /\ VMFacts(objects[i]).guestId = PyNone) =>
            /\ pc # "failed"
            /\ HostKey(VMFacts(objects[i]).name, VMFacts(objects[i]).uuid)
                   \in Members(cacheable_results, VMFacts(objects[i]).power)
            /\ \A g \in DOMAIN cacheable_results :
                  HostKey(VMFacts(objects[i]).name, VMFacts(objects[i]).uuid)
                      \in Members(cacheable_results, g)
                  => g \in {VMFacts(objects[i]).power} \cup
                           {TagName(ListAttachedTags(objects[i])[t]) :
                               t \in DOMAIN ListAttachedTags(objects[i])}

RECURSIVE BackendChain(_, _, _)
\* The value the backend object chain holds at the end of a dotted path:
\* plain attribute reads, one per segment, with no flattening in between.
BackendChain(h, v, attributes) ==
    IF attributes = <<>>
    THEN [exists |-> TRUE, v |-> v]
    ELSE LET rd == GetAttr(h, v, Head(attributes)) IN
         IF rd.raised # NoRaise \/ rd.v.t = "callable"
         THEN [exists |-> FALSE, v |-> PyNone]
         ELSE BackendChain(h, rd.v, Tail(attributes))

\* C11: for a dotted path whose every attribute exists along the backend
\* object chain, _get_object_prop returns the flattened form of the value
\* the whole path reaches.
C11_WholePathResolved ==
    (/\ pc = "got"
     /\ Len(gp_path) >= 1
     /\ BackendChain(heap, Obj("o1"), gp_path).exists)
    => /\ gp_result[1].raised = NoRaise
       /\ gp_result[1].v =
             ProcessObjectTypes(heap,
                 BackendChain(heap, Obj("o1"), gp_path).v, 0).v

\* C12: replaying the snapshot a completed live enumeration returned into
\* an empty inventory gives the groups, the host members of each group and
\* the variables of each host that the live run left in its inventory
\* (the links of the groups under the root group 'all' aside).
C12_ReplayAgreesWithLive ==
    LiveRunReturned =>
        LET replayed == PopulateFromCache(EmptyInventory, cacheable_results).inv
        IN  /\ replayed.groups = inventory.groups
            /\ replayed.hosts = inventory.hosts
            /\ replayed.vars = inventory.vars
            /\ \A g \in inventory.groups \ {"all"} :
                  replayed.children[g] = inventory.children[g]

\* A live run without tags returned two hosts in different power-state
\* groups, one of them with an address variable.
C12_Witness ==
    /\ LiveRunReturned
    /\ ~options.with_tags
    /\ inventory.hosts = {"web_u1", "web_u2"}
    /\ inventory.children["poweredOn"] = {"web_u1"}
    /\ inventory.children["poweredOff"] = {"web_u2"}
    /\ inventory.vars["web_u1"]["ansible_host"] = Str("10.0.0.5")

\* C13: in the snapshot a live enumeration returned, no group's 'hosts'
\* list contains the same host key twice.
C13_NoDuplicateMembers ==
    LiveRunReturned =>
        \A g \in DOMAIN cacheable_results :
            "hosts" \in DOMAIN cacheable_results[g] =>
                \A i, j \in DOMAIN cacheable_results[g].hosts :
                    cacheable_results[g].hosts[i] = cacheable_results[g].hosts[j]
                        => i = j

====
